---- MODULE Spec2Model ----
(***************************************************************************)
(* MultiVectorStore (core/vector_store/multi_vector_store.py): the table   *)
(* multi_vector_embeddings, the max_sim routine installed by initialize,   *)
(* and the handlers store_embeddings, query_similar, get_chunks_by_id and  *)
(* delete_chunks_by_document_id.                                           *)
(*                                                                         *)
(* Conventions.  A float is one of -1, 0, 1 (negative, zero, positive).    *)
(* A bit-vector is a sequence over {0, 1}.  A Python or SQL string that    *)
(* the code splices into SQL text is a sequence of one-character strings,  *)
(* so that the SQL reading of the spliced text can be computed.  A         *)
(* similarity is an integer numerator over the denominator SimScale.       *)
(***************************************************************************)
EXTENDS Integers, Sequences, FiniteSets, TLC

\* table:  the rows of multi_vector_embeddings, in insertion order.
\* pc:     the caller's position: "ready" to make a call, or "returned" from
\*         one (every handler is awaited before the next call is made).
\* call:   the handler called last and its arguments, with what the backend
\*         did during the call (fault).
\* ret:    what the call returned.
\* raised: the exception the call raised, "none" when it returned.
\* pre:    the rows of the table when the call was made.
\* gen:    the frame of the get_connection generator while a block
\*         `with self.get_connection() as conn` is followed step by step.
\* schema: what the database holds besides the rows: the vector extension,
\*         the shape of multi_vector_embeddings, its index, max_sim.
VARIABLES table, pc, call, ret, raised, pre, gen, schema

vars == <<table, pc, call, ret, raised, pre, gen, schema>>

(***************************************************************************)
(* Bounds of the model.                                                    *)
(***************************************************************************)
\* Width of the embeddings column, BIT(128)[] in the source, scaled down.
D == 2
\* Most rows the table holds.
MaxRows == 3
\* Longest batch given to store_embeddings and longest key list given to
\* get_chunks_by_id.
MaxBatch == 2
\* Largest LIMIT given to query_similar.
MaxK == 2

(***************************************************************************)
(* Helpers.                                                                *)
(***************************************************************************)
RECURSIVE Factorial(_)
Factorial(n) == IF n <= 1 THEN 1 ELSE n * Factorial(n - 1)

\* Common denominator of every similarity 1 - h / L with 1 <= L <= D.
SimScale == Factorial(D)

Max2(a, b) == IF a >= b THEN a ELSE b

RECURSIVE SeqSum(_)
SeqSum(s) == IF s = <<>> THEN 0 ELSE Head(s) + SeqSum(Tail(s))

RECURSIVE SeqMax(_)
SeqMax(s) == IF Len(s) = 1 THEN Head(s) ELSE Max2(Head(s), SeqMax(Tail(s)))

SeqsUpTo(S, n) == UNION {[1..m -> S] : m \in 0..n}

Range(s) == {s[i] : i \in 1..Len(s)}

(***************************************************************************)
(* _binary_quantize: Bit(embedding > 0) for each embedding.                *)
(***************************************************************************)
\* The variant embedding >= 0.
BitNonNegative(embedding) ==
    [i \in 1..Len(embedding) |-> IF embedding[i] >= 0 THEN 1 ELSE 0]

Bit(embedding) == [i \in 1..Len(embedding) |-> IF embedding[i] > 0 THEN 1 ELSE 0]

\* embeddings is [kind, vecs]: kind "list" is a Python list, "ndarray" a numpy
\* array or a torch tensor (converted by .cpu().numpy()).  connected says
\* whether get_connection inside _binary_quantize obtains a connection.
binary_quantize(embeddings, connected) ==
    IF embeddings.kind = "list" /\ embeddings.vecs = <<>>
    THEN [err |-> "IndexError", bits |-> <<>>]           \* embeddings[0]
    ELSE IF ~connected
    THEN [err |-> "OperationalError", bits |-> <<>>]     \* get_connection
    ELSE [err |-> "none",
          bits |-> [i \in 1..Len(embeddings.vecs) |-> Bit(embeddings.vecs[i])]]

(***************************************************************************)
(* max_sim(document bit[], query bit[]), the SQL routine.                  *)
(***************************************************************************)
bit_count(b) == SeqSum(b)

\* document # query; PostgreSQL refuses to XOR bit strings of different sizes.
BitXor(a, b) == [i \in 1..Len(a) |-> IF a[i] = b[i] THEN 0 ELSE 1]

\* 1.0 - bit_count(document # query) / greatest(bit_length(query), 1)
similarity(document, query) ==
    SimScale - (SimScale * bit_count(BitXor(document, query)))
                   \div Max2(Len(query), 1)

RECURSIVE SeqMin(_)
SeqMin(s) == IF Len(s) = 1 THEN Head(s)
             ELSE IF Head(s) <= SeqMin(Tail(s)) THEN Head(s) ELSE SeqMin(Tail(s))

\* MIN(similarity) in place of MAX(similarity).
min_similarity(document, q) ==
    SeqMin([j \in 1..Len(document) |-> similarity(document[j], q)])

\* MAX(similarity) ... GROUP BY query_number, for one query vector.
max_similarity(document, q) ==
    SeqMax([j \in 1..Len(document) |-> similarity(document[j], q)])

\* [st, v]: st = "error" when some pair cannot be XORed, st = "null" when the
\* CROSS JOIN is empty (SUM over no rows gives NULL), else st = "ok" and v is
\* SUM(max_similarity).
max_sim(document, query) ==
    IF \E i \in 1..Len(query), j \in 1..Len(document) :
           Len(query[i]) # Len(document[j])
    THEN [st |-> "error", v |-> 0]
    ELSE IF query = <<>> \/ document = <<>>
    THEN [st |-> "null", v |-> 0]
    ELSE [st |-> "ok",
          v |-> SeqSum([i \in 1..Len(query) |->
                            max_similarity(document, query[i])])]

(***************************************************************************)
(* Python str() and eval() of a chunk's metadata (store_embeddings writes  *)
(* str(chunk.metadata); the readers eval() the text).  A metadata dict is  *)
(* a sequence of <<key, value>> pairs, the value named by its repr.        *)
(***************************************************************************)
MdEmpty == <<>>
MdLit == << <<"k", "1">> >>
MdNan == << <<"k", "nan">> >>
MdObj == << <<"k", "<object object at 0x7f>">> >>

Metadatas == {MdEmpty, MdLit, MdNan, MdObj}

\* str(chunk.metadata)
PyStr(md) ==
    IF md = <<>> THEN "{}"
    ELSE "{'" \o md[1][1] \o "': " \o md[1][2] \o "}"

\* eval(text): 1 is a literal; nan is a name the module does not define;
\* <object object at 0x7f> is not an expression.
PyEval(text) ==
    CASE text = "{}" -> [err |-> "none", value |-> MdEmpty]
      [] text = "{'k': 1}" -> [err |-> "none", value |-> MdLit]
      [] text = "{'k': nan}" -> [err |-> "NameError", value |-> MdEmpty]
      [] OTHER -> [err |-> "SyntaxError", value |-> MdEmpty]

\* metadata = eval(row) if row else {}, except (ValueError, SyntaxError): {}
DecodeMetadata(text) ==
    IF text = "" THEN [err |-> "none", value |-> MdEmpty]
    ELSE LET e == PyEval(text) IN
         IF e.err \in {"ValueError", "SyntaxError"}
         THEN [err |-> "none", value |-> MdEmpty]
         ELSE e

(***************************************************************************)
(* SQL text built with f-strings: '{document_id}' as PostgreSQL reads it.  *)
(***************************************************************************)
Quote == "'"

FirstQuote(d) ==
    IF \E i \in 1..Len(d) : d[i] = Quote
    THEN CHOOSE i \in 1..Len(d) : d[i] = Quote /\ \A j \in 1..(i - 1) : d[j] # Quote
    ELSE 0

\* The string literal that begins at the opening quote of '{d}'.  Without a
\* quote in d the literal is d.  With one, the literal ends there, and the
\* text after it (the rest of d and the closing quote of the template)
\* either begins a comment (--) that runs to the end of the line, or is a
\* syntax error.
SqlLiteral(d) ==
    LET q == FirstQuote(d) IN
    IF q = 0 THEN [ok |-> TRUE, value |-> d, comment |-> FALSE]
    ELSE LET rest == SubSeq(d, q + 1, Len(d)) \o <<Quote>> IN
         IF Len(rest) >= 2 /\ rest[1] = "-" /\ rest[2] = "-"
         THEN [ok |-> TRUE, value |-> SubSeq(d, 1, q - 1), comment |-> TRUE]
         ELSE [ok |-> FALSE, value |-> <<>>, comment |-> FALSE]

(***************************************************************************)
(* The inputs the handlers are called with.                                *)
(***************************************************************************)
DocA == <<"a">>
DocB == <<"b">>
\* A document_id that holds a quote and a comment marker: a'--
DocQ == <<"a", Quote, "-", "-">>

DocIds == {DocA, DocB, DocQ}
ChunkNums == {0, 1}

\* Float vectors of the configured width, and one that is a component short.
Ones == [i \in 1..D |-> 1]
PosNeg == [i \in 1..D |-> IF i = 1 THEN 1 ELSE -1]
ZeroPos == [i \in 1..D |-> IF i = 1 THEN 0 ELSE 1]
Short == [i \in 1..(D - 1) |-> 1]

NoEmbedding == [kind |-> "None", vecs |-> <<>>]
EmptyList == [kind |-> "list", vecs |-> <<>>]
EmptyArray == [kind |-> "ndarray", vecs |-> <<>>]
OneVector == [kind |-> "list", vecs |-> <<Ones>>]
TwoVectors == [kind |-> "ndarray", vecs |-> <<PosNeg, ZeroPos>>]
ShortVector == [kind |-> "list", vecs |-> <<Short>>]

DocumentChunk(d, n, c, m, e) ==
    [document_id |-> d, chunk_number |-> n, content |-> c, metadata |-> m,
     embedding |-> e]

\* The chunks given to store_embeddings.
Chunks ==
    { DocumentChunk(DocA, 0, "x", MdLit, OneVector),
      DocumentChunk(DocA, 0, "y", MdNan, TwoVectors),
      DocumentChunk(DocB, 0, "y", MdObj, TwoVectors),
      DocumentChunk(DocQ, 0, "x", MdLit, OneVector),
      DocumentChunk(DocB, 1, "x", MdLit, NoEmbedding),
      DocumentChunk(DocB, 1, "x", MdLit, EmptyList),
      DocumentChunk(DocB, 1, "y", MdEmpty, EmptyArray),
      DocumentChunk(DocA, 1, "y", MdLit, ShortVector) }

Batches == SeqsUpTo(Chunks, MaxBatch)

\* What the backend does during one call.  "none": every connection is
\* obtained and every statement runs.  "connect": every attempt to connect
\* fails with OperationalError.  "execute": the statement is refused with an
\* error that is no OperationalError.  In store_embeddings the fault strikes
\* while chunk number `at` of the batch is handled.
NoFault == [at |-> 0, kind |-> "none"]
Faults == {NoFault, [at |-> 1, kind |-> "connect"], [at |-> 1, kind |-> "execute"]}
StoreFaults(chunks) ==
    {NoFault} \cup [at : 1..Len(chunks), kind : {"connect", "execute"}]

\* ret holds what the call returned and is read only when raised = "none":
\* a call that raised returns nothing, and ret then holds these fillers.
NoChunks == <<>>
NoStoreReturn == [success |-> FALSE, stored_keys |-> <<>>]

(***************************************************************************)
(* The schema and initialize.                                              *)
(***************************************************************************)
\* schema.table is the shape of multi_vector_embeddings:
\*   "absent":  no such table;
\*   "legacy":  a table without the column document_id;
\*   "added":   the four columns added by ALTER TABLE, all of them nullable;
\*   "evolved": as "added", with document_id NOT NULL;
\*   "created": the table of CREATE TABLE.
\* A row of a table that was altered holds NULL in the added columns.
TableShapes == {"absent", "legacy", "added", "evolved", "created"}

\* The database after an initialize that met no obstacle on an empty one.
Shaped == [extension |-> TRUE, table |-> "created", index |-> TRUE,
           max_sim |-> TRUE]

\* What the SELECT of query_similar is refused with, "none" when the table,
\* its columns and max_sim are all there.
SchemaError(sch) ==
    IF sch.table = "absent" THEN "UndefinedTable"
    ELSE IF sch.table = "legacy" THEN "UndefinedColumn"
    ELSE IF ~sch.max_sim THEN "UndefinedFunction"
    ELSE "none"

\* What the backend refuses during one call of initialize: nothing, every
\* connection, the statement that creates or alters the table, CREATE
\* INDEX, DROP FUNCTION, or CREATE FUNCTION.
InitFaults == {"none", "connect", "table", "index", "drop", "create"}

\* Lines 91-149: the table is created, or altered when it lacks
\* document_id.  Every statement commits on its own (autocommit); SET NOT
\* NULL is refused when a row holds NULL in document_id.
EnsureTable(sch, rows, fault) ==
    IF sch.table = "absent"
    THEN IF fault = "table" THEN [ok |-> FALSE, schema |-> sch]
         ELSE [ok |-> TRUE, schema |-> [sch EXCEPT !.table = "created"]]
    ELSE IF sch.table = "legacy"
    THEN IF fault = "table" THEN [ok |-> FALSE, schema |-> sch]
         ELSE IF rows # <<>>
         THEN [ok |-> FALSE, schema |-> [sch EXCEPT !.table = "added"]]
         ELSE [ok |-> TRUE, schema |-> [sch EXCEPT !.table = "evolved"]]
    ELSE [ok |-> TRUE, schema |-> sch]

\* Lines 151-162: CREATE INDEX IF NOT EXISTS; a failure is logged only.
EnsureIndex(sch, fault) ==
    IF fault = "index" THEN sch ELSE [sch EXCEPT !.index = TRUE]

\* Lines 164-200: DROP FUNCTION IF EXISTS, then CREATE OR REPLACE FUNCTION,
\* in one try block; a failure is logged only.
EnsureMaxSim(sch, fault) ==
    IF fault = "drop" THEN sch
    ELSE IF fault = "create" THEN [sch EXCEPT !.max_sim = FALSE]
    ELSE [sch EXCEPT !.max_sim = TRUE]

\* initialize: [schema, ret].  get_connection registers the vector type on
\* every connection (line 59), which fails while the extension is not
\* installed, so that CREATE EXTENSION (line 87) is reached only when the
\* extension is there already.  Every exception ends in `return False`.
InitializeResult(sch, rows, fault) ==
    IF fault = "connect" \/ ~sch.extension
    THEN [schema |-> sch, ret |-> FALSE]
    ELSE LET t == EnsureTable(sch, rows, fault) IN
         IF ~t.ok THEN [schema |-> t.schema, ret |-> FALSE]
         ELSE [schema |-> EnsureMaxSim(EnsureIndex(t.schema, fault), fault),
               ret |-> TRUE]

initialize ==
    /\ pc = "ready"
    /\ \E fault \in InitFaults :
        LET r == InitializeResult(schema, table, fault) IN
        /\ schema' = r.schema
        /\ ret' = r.ret
        /\ call' = [op |-> "initialize", fault |-> fault, before |-> schema]
    /\ raised' = "none"
    /\ pc' = "returned"
    /\ pre' = table
    /\ UNCHANGED <<table, gen>>

(***************************************************************************)
(* store_embeddings                                                        *)
(***************************************************************************)
\* Decimal digits of a chunk number, as text.
Digits(n) == <<ToString(n)>>

\* f"{chunk.document_id}-{chunk.chunk_number}"
StoredKey(chunk) == chunk.document_id \o <<"-">> \o Digits(chunk.chunk_number)

\* INSERT INTO multi_vector_embeddings (...) VALUES (%s, %s, %s, %s, %s) on
\* its own connection: the column embeddings is BIT(D)[].
Insert(tbl, chunk, binary_embeddings, fault) ==
    IF fault = "connect" THEN [err |-> "OperationalError", table |-> tbl]
    ELSE IF fault = "execute" THEN [err |-> "DatabaseError", table |-> tbl]
    ELSE IF \E i \in 1..Len(binary_embeddings) : Len(binary_embeddings[i]) # D
    THEN [err |-> "DataError", table |-> tbl]
    ELSE [err |-> "none",
          table |-> Append(tbl, [document_id |-> chunk.document_id,
                                 chunk_number |-> chunk.chunk_number,
                                 content |-> chunk.content,
                                 chunk_metadata |-> PyStr(chunk.metadata),
                                 embeddings |-> binary_embeddings])]

\* The loop over the batch, from chunk i on.
RECURSIVE StoreLoop(_, _, _, _, _)
StoreLoop(chunks, i, tbl, stored_ids, fault) ==
    IF i > Len(chunks)
    THEN [table |-> tbl, stored_ids |-> stored_ids, raised |-> "none"]
    ELSE IF chunks[i].embedding.kind = "None"
    THEN StoreLoop(chunks, i + 1, tbl, stored_ids, fault)
    ELSE LET hit == IF fault.at = i THEN fault.kind ELSE "none"
             q == binary_quantize(chunks[i].embedding, hit # "connect")
         IN  IF q.err # "none"
             THEN [table |-> tbl, stored_ids |-> stored_ids, raised |-> q.err]
             ELSE LET ins == Insert(tbl, chunks[i], q.bits, hit) IN
                  IF ins.err # "none"
                  THEN [table |-> tbl, stored_ids |-> stored_ids,
                        raised |-> ins.err]
                  ELSE StoreLoop(chunks, i + 1, ins.table,
                                 Append(stored_ids, StoredKey(chunks[i])), fault)

\* The variant that rolls the batch back when the loop raises.
StoreResultAtomic(chunks, tbl, fault) ==
    IF chunks = <<>>
    THEN [table |-> tbl, raised |-> "none",
          ret |-> [success |-> TRUE, stored_keys |-> <<>>]]
    ELSE LET r == StoreLoop(chunks, 1, tbl, <<>>, fault) IN
         [table |-> IF r.raised = "none" THEN r.table ELSE tbl,
          raised |-> r.raised,
          ret |-> IF r.raised = "none"
                  THEN [success |-> Len(r.stored_ids) > 0,
                        stored_keys |-> r.stored_ids]
                  ELSE NoStoreReturn]

StoreResult(chunks, tbl, fault) ==
    IF chunks = <<>>
    THEN [table |-> tbl, raised |-> "none",
          ret |-> [success |-> TRUE, stored_keys |-> <<>>]]
    ELSE LET r == StoreLoop(chunks, 1, tbl, <<>>, fault) IN
         [table |-> r.table, raised |-> r.raised,
          ret |-> IF r.raised = "none"
                  THEN [success |-> Len(r.stored_ids) > 0,
                        stored_keys |-> r.stored_ids]
                  ELSE NoStoreReturn]

store_embeddings ==
    /\ pc = "ready"
    /\ \E chunks \in Batches :
      \E fault \in StoreFaults(chunks) :
        /\ Len(table) + Len(chunks) <= MaxRows
        /\ LET r == StoreResult(chunks, table, fault) IN
           /\ table' = r.table
           /\ raised' = r.raised
           /\ ret' = r.ret
        /\ call' = [op |-> "store_embeddings", chunks |-> chunks, fault |-> fault]
        /\ pc' = "returned"
        /\ pre' = table
        /\ UNCHANGED <<gen, schema>>

(***************************************************************************)
(* query_similar                                                           *)
(***************************************************************************)
\* doc_ids: None, or a list of document ids.
NoFilter == [none |-> TRUE, ids |-> <<>>]
ListFilter(ids) == [none |-> FALSE, ids |-> ids]

DocIdFilters ==
    {NoFilter, ListFilter(<<>>), ListFilter(<<DocA>>), ListFilter(<<DocB, DocQ>>)}

QueryEmbeddings == {EmptyList, EmptyArray, OneVector, TwoVectors, ShortVector}

Ks == (-1)..MaxK

\* The variant without the WHERE clause.
CandidatesUnfiltered(tbl, doc_ids) == 1..Len(tbl)

\* "if doc_ids:" appends WHERE document_id IN (%s, ...), the ids passed as
\* parameters; otherwise every row is a candidate.
Candidates(tbl, doc_ids) ==
    IF ~doc_ids.none /\ doc_ids.ids # <<>>
    THEN {i \in 1..Len(tbl) : tbl[i].document_id \in Range(doc_ids.ids)}
    ELSE 1..Len(tbl)

\* ORDER BY similarity, ascending: NULL sorts after every number.
SortsBeforeAscending(a, b) ==
    \/ b.st = "null"
    \/ a.st = "ok" /\ b.st = "ok" /\ a.v <= b.v

\* ORDER BY similarity DESC: NULL sorts before every number.
SortsBefore(a, b) ==
    \/ a.st = "null"
    \/ a.st = "ok" /\ b.st = "ok" /\ a.v >= b.v

\* Every order ORDER BY similarity DESC may give the candidates (ties in any
\* order), as sequences of row numbers.
Orderings(cands, score) ==
    {p \in [1..Cardinality(cands) -> cands] :
        /\ \A i, j \in 1..Cardinality(cands) : i # j => p[i] # p[j]
        /\ \A i \in 1..(Cardinality(cands) - 1) :
               SortsBefore(score[p[i]], score[p[i + 1]])}

\* LIMIT k
Limit(rows, k) == SubSeq(rows, 1, IF k < Len(rows) THEN k ELSE Len(rows))

\* The loop that turns the fetched rows into DocumentChunks: the first row
\* whose metadata eval() raises, or whose similarity is NULL (float(None)),
\* ends the call.
RECURSIVE ToChunks(_, _, _, _)
ToChunks(tbl, rows, score, chunks) ==
    IF rows = <<>> THEN [raised |-> "none", ret |-> chunks]
    ELSE LET row == tbl[Head(rows)]
             md == DecodeMetadata(row.chunk_metadata)
         IN  IF md.err # "none" THEN [raised |-> md.err, ret |-> NoChunks]
             ELSE IF score[Head(rows)].st = "null"
             THEN [raised |-> "TypeError", ret |-> NoChunks]
             ELSE ToChunks(tbl, Tail(rows), score,
                           Append(chunks,
                                  [document_id |-> row.document_id,
                                   chunk_number |-> row.chunk_number,
                                   content |-> row.content,
                                   embedding |-> <<>>,
                                   metadata |-> md.value,
                                   score |-> score[Head(rows)].v]))

\* Every outcome [raised, ret] of one call.
QueryOutcomes(sch, tbl, query_embedding, k, doc_ids, fault) ==
    LET q == binary_quantize(query_embedding, fault.kind # "connect")
        cands == Candidates(tbl, doc_ids)
        score == [i \in 1..Len(tbl) |-> max_sim(tbl[i].embeddings, q.bits)]
    IN  IF q.err # "none" THEN {[raised |-> q.err, ret |-> NoChunks]}
        ELSE IF fault.kind = "execute"
        THEN {[raised |-> "DatabaseError", ret |-> NoChunks]}
        ELSE IF SchemaError(sch) # "none"     \* the statement is refused
        THEN {[raised |-> SchemaError(sch), ret |-> NoChunks]}
        ELSE IF k < 0                         \* LIMIT must not be negative
        THEN {[raised |-> "DataError", ret |-> NoChunks]}
        ELSE IF k = 0                         \* no row is fetched
        THEN {[raised |-> "none", ret |-> <<>>]}
        ELSE IF \E i \in cands : score[i].st = "error"
        THEN {[raised |-> "DataError", ret |-> NoChunks]}
        ELSE {ToChunks(tbl, Limit(p, k), score, <<>>) :
                 p \in Orderings(cands, score)}

query_similar ==
    /\ pc = "ready"
    /\ \E query_embedding \in QueryEmbeddings, k \in Ks, doc_ids \in DocIdFilters,
       fault \in Faults :
      \E out \in QueryOutcomes(schema, table, query_embedding, k, doc_ids, fault) :
        /\ raised' = out.raised
        /\ ret' = out.ret
        /\ call' = [op |-> "query_similar", query_embedding |-> query_embedding,
                    k |-> k, doc_ids |-> doc_ids, fault |-> fault]
        /\ pc' = "returned"
        /\ pre' = table
        /\ UNCHANGED <<table, gen, schema>>

(***************************************************************************)
(* get_chunks_by_id                                                        *)
(***************************************************************************)
KeyLists == SeqsUpTo(DocIds \X ChunkNums, MaxBatch)

\* WHERE (document_id = '{doc_id}' AND chunk_number = {chunk_num}) OR ...
\* on one line: a literal that ends early leaves the text unparsable.
WhereParses(chunk_identifiers) ==
    \A i \in 1..Len(chunk_identifiers) :
        LET lit == SqlLiteral(chunk_identifiers[i][1]) IN lit.ok /\ ~lit.comment

WhereMatches(row, chunk_identifiers) ==
    \E i \in 1..Len(chunk_identifiers) :
        /\ row.document_id = SqlLiteral(chunk_identifiers[i][1]).value
        /\ row.chunk_number = chunk_identifiers[i][2]

\* The rows of tbl that satisfy the WHERE clause, in table order.
RECURSIVE SelectRows(_, _)
SelectRows(tbl, chunk_identifiers) ==
    IF tbl = <<>> THEN <<>>
    ELSE IF WhereMatches(Head(tbl), chunk_identifiers)
    THEN <<Head(tbl)>> \o SelectRows(Tail(tbl), chunk_identifiers)
    ELSE SelectRows(Tail(tbl), chunk_identifiers)

RECURSIVE RowsToChunks(_, _)
RowsToChunks(rows, chunks) ==
    IF rows = <<>> THEN [raised |-> "none", ret |-> chunks]
    ELSE LET row == Head(rows)
             md == DecodeMetadata(row.chunk_metadata)
         IN  IF md.err # "none" THEN [raised |-> md.err, ret |-> NoChunks]
             ELSE RowsToChunks(Tail(rows),
                               Append(chunks,
                                      [document_id |-> row.document_id,
                                       chunk_number |-> row.chunk_number,
                                       content |-> row.content,
                                       embedding |-> <<>>,
                                       metadata |-> md.value,
                                       score |-> 0]))

GetResult(tbl, chunk_identifiers, fault) ==
    IF chunk_identifiers = <<>> THEN [raised |-> "none", ret |-> <<>>]
    ELSE IF fault.kind = "connect"
    THEN [raised |-> "OperationalError", ret |-> NoChunks]
    ELSE IF fault.kind = "execute"
    THEN [raised |-> "DatabaseError", ret |-> NoChunks]
    ELSE IF ~WhereParses(chunk_identifiers)
    THEN [raised |-> "ProgrammingError", ret |-> NoChunks]
    ELSE RowsToChunks(SelectRows(tbl, chunk_identifiers), <<>>)

get_chunks_by_id ==
    /\ pc = "ready"
    /\ \E chunk_identifiers \in KeyLists, fault \in Faults :
      LET out == GetResult(table, chunk_identifiers, fault) IN
        /\ raised' = out.raised
        /\ ret' = out.ret
        /\ call' = [op |-> "get_chunks_by_id",
                    chunk_identifiers |-> chunk_identifiers, fault |-> fault]
        /\ pc' = "returned"
        /\ pre' = table
        /\ UNCHANGED <<table, gen, schema>>

(***************************************************************************)
(* delete_chunks_by_document_id                                            *)
(***************************************************************************)
\* DELETE FROM multi_vector_embeddings WHERE document_id = '{document_id}'
\* A comment after the literal ends the statement there.
RECURSIVE DeleteRows(_, _)
DeleteRows(tbl, value) ==
    IF tbl = <<>> THEN <<>>
    ELSE IF Head(tbl).document_id = value THEN DeleteRows(Tail(tbl), value)
    ELSE <<Head(tbl)>> \o DeleteRows(Tail(tbl), value)

\* Without the handler's try/except the failure would reach the caller.
DeleteResultUncaught(tbl, document_id, fault) ==
    LET lit == SqlLiteral(document_id) IN
    IF fault.kind = "connect"
    THEN [table |-> tbl, ret |-> FALSE, caught |-> "none",
          raised |-> "OperationalError"]
    ELSE IF fault.kind = "execute"
    THEN [table |-> tbl, ret |-> FALSE, caught |-> "none",
          raised |-> "DatabaseError"]
    ELSE IF ~lit.ok
    THEN [table |-> tbl, ret |-> FALSE, caught |-> "none",
          raised |-> "ProgrammingError"]
    ELSE [table |-> DeleteRows(tbl, lit.value), ret |-> TRUE, caught |-> "none",
          raised |-> "none"]

\* try: ... return True / except Exception: return False.  caught is the
\* exception the handler caught, raised the one that left it.
DeleteResult(tbl, document_id, fault) ==
    LET lit == SqlLiteral(document_id) IN
    IF fault.kind = "connect"
    THEN [table |-> tbl, ret |-> FALSE, caught |-> "OperationalError",
          raised |-> "none"]
    ELSE IF fault.kind = "execute"
    THEN [table |-> tbl, ret |-> FALSE, caught |-> "DatabaseError",
          raised |-> "none"]
    ELSE IF ~lit.ok
    THEN [table |-> tbl, ret |-> FALSE, caught |-> "ProgrammingError",
          raised |-> "none"]
    ELSE [table |-> DeleteRows(tbl, lit.value), ret |-> TRUE, caught |-> "none",
          raised |-> "none"]

delete_chunks_by_document_id ==
    /\ pc = "ready"
    /\ \E document_id \in DocIds, fault \in Faults :
      LET out == DeleteResult(table, document_id, fault) IN
        /\ pc' = "returned"
        /\ pre' = table
        /\ table' = out.table
        /\ raised' = out.raised
        /\ ret' = [value |-> out.ret, caught |-> out.caught]
        /\ call' = [op |-> "delete_chunks_by_document_id",
                    document_id |-> document_id, fault |-> fault]
        /\ UNCHANGED <<gen, schema>>

(***************************************************************************)
(* get_connection, followed step by step through one block                 *)
(*     with self.get_connection() as conn: <body>                          *)
(* The generator runs up to its yield when the block is entered; the body  *)
(* then runs; when the body ends the generator is resumed, and when the    *)
(* body raises the exception is thrown into the generator at its yield.    *)
(***************************************************************************)
\* Largest max_retries the store is constructed with.
MaxRetries == 3

\* An exception: its type and the backend operation (numbered within the
\* block) that raised it.  None stands for Python's None.
Error(type, n) == [type |-> type, n |-> n]
None == Error("None", 0)

\* The frame of the generator and what the backend saw of it.
\*   attempt, last_error: the generator's locals.
\*   conns:    one entry per connection opened, "open" or "closed".
\*   connects: calls of psycopg.connect; sleeps: calls of time.sleep;
\*   bodies:   times the body of the block ran; ops: backend operations.
\*   observed: the OperationalErrors raised to the generator, in order.
\*   thrown:   the exception of the body thrown in at the yield, or None.
\*   entered:  the number of the connect call whose connection the body was
\*             given, 0 while the body has not been entered.
\*   error:    the exception the block raised to its caller, or None.
\*   exhausted: line 79 was reached.
NewGen(max_retries) ==
    [max_retries |-> max_retries, attempt |-> 0, last_error |-> None,
     conns |-> <<>>, connects |-> 0, sleeps |-> 0, bodies |-> 0, ops |-> 0,
     observed |-> <<>>, thrown |-> None, entered |-> 0, error |-> None,
     exhausted |-> FALSE]
NoGen == NewGen(0)

\* conn.close() of the finally clause, on the connection opened last.
Close(g) == [g EXCEPT !.conns[Len(g.conns)] = "closed"]

\* The clause `except psycopg.OperationalError as e` (lines 70-75).
ExceptOperationalError(g, e) ==
    [g EXCEPT !.last_error = e,
              !.attempt = g.attempt + 1,
              !.sleeps = IF g.attempt + 1 < g.max_retries
                         THEN g.sleeps + 1 ELSE g.sleeps,
              !.observed = Append(g.observed, e)]

\* The block is entered: the generator is created and started.
get_connection ==
    /\ pc = "ready"
    /\ \E max_retries \in 0..MaxRetries :
        /\ gen' = NewGen(max_retries)
        /\ call' = [op |-> "get_connection", max_retries |-> max_retries]
    /\ pc' = "while"
    /\ UNCHANGED <<table, ret, raised, pre, schema>>

\* Line 57: psycopg.connect succeeds, or fails with OperationalError.
connect ==
    /\ pc = "while"
    /\ gen.attempt < gen.max_retries
    /\ LET g == [gen EXCEPT !.connects = gen.connects + 1,
                            !.ops = gen.ops + 1] IN
       \/ /\ gen' = [g EXCEPT !.conns = Append(g.conns, "open")]
          /\ pc' = "register"
       \/ /\ gen' = ExceptOperationalError(g, Error("OperationalError", g.ops))
          /\ pc' = "while"
    /\ UNCHANGED <<table, call, ret, raised, pre, schema>>

\* Lines 59-62: register_vector(conn), which queries the backend for the
\* vector type, and the yield that follows it.  A generator that yields
\* again after an exception was thrown into it makes the block raise
\* RuntimeError.  What becomes of the generator depends on the Python
\* runtime: contextlib closes it before raising (GeneratorExit at the yield,
\* the finally clause closes the connection), or it stays suspended at the
\* yield with the connection open until it is collected.
register_vector ==
    /\ pc = "register"
    /\ LET g == [gen EXCEPT !.ops = gen.ops + 1] IN
       \/ /\ g.thrown = None
          /\ gen' = [g EXCEPT !.entered = g.connects]
          /\ pc' = "body"
          /\ UNCHANGED raised
       \/ /\ g.thrown # None
          /\ \/ gen' = Close([g EXCEPT !.error = Error("RuntimeError", 0)])
             \/ gen' = [g EXCEPT !.error = Error("RuntimeError", 0)]
          /\ pc' = "returned"
          /\ raised' = "RuntimeError"
       \/ /\ gen' = ExceptOperationalError(g, Error("OperationalError", g.ops))
          /\ pc' = "while"
          /\ UNCHANGED raised
       \/ /\ gen' = [g EXCEPT !.error = Error("ProgrammingError", g.ops)]
          /\ pc' = "returned"
          /\ raised' = "ProgrammingError"
    /\ UNCHANGED <<table, call, ret, pre, schema>>

\* The body of the block uses the connection.  It ends (lines 63-69: the
\* generator returns and closes the connection), or a statement fails with
\* OperationalError (closed by the finally clause, then caught at line 70),
\* or with another error (closed, then propagated to the caller).
body ==
    /\ pc = "body"
    /\ LET g == Close([gen EXCEPT !.bodies = gen.bodies + 1,
                                  !.ops = gen.ops + 1]) IN
       \/ /\ gen' = g
          /\ pc' = "returned"
          /\ raised' = "none"
       \/ LET e == Error("OperationalError", g.ops) IN
          /\ gen' = ExceptOperationalError([g EXCEPT !.thrown = e], e)
          /\ pc' = "while"
          /\ UNCHANGED raised
       \/ LET e == Error("DatabaseError", g.ops) IN
          /\ gen' = [g EXCEPT !.thrown = e, !.error = e]
          /\ pc' = "returned"
          /\ raised' = "DatabaseError"
    /\ UNCHANGED <<table, call, ret, pre, schema>>

\* Lines 77-79: the loop is over and last_error is raised; `raise None` is
\* a TypeError.
raise_last_error ==
    /\ pc = "while"
    /\ gen.attempt >= gen.max_retries
    /\ LET e == IF gen.last_error = None THEN Error("TypeError", 0)
                ELSE gen.last_error IN
       /\ gen' = [gen EXCEPT !.error = e, !.exhausted = TRUE]
       /\ raised' = e.type
    /\ pc' = "returned"
    /\ UNCHANGED <<table, call, ret, pre, schema>>

(***************************************************************************)
(* The caller and the specification.                                       *)
(***************************************************************************)
NoCall == [op |-> "none"]

\* The caller takes the result of the call it awaited.
Return ==
    /\ pc = "returned"
    /\ pc' = "ready"
    /\ call' = NoCall
    /\ ret' = NoChunks
    /\ raised' = "none"
    /\ pre' = table
    /\ gen' = NoGen
    /\ UNCHANGED <<table, schema>>

\* A store that initialize has set up (the table and max_sim exist), empty.
Init ==
    /\ table = <<>>
    /\ pc = "ready"
    /\ call = NoCall
    /\ ret = NoChunks
    /\ raised = "none"
    /\ pre = <<>>
    /\ gen = NoGen
    /\ schema = Shaped

Next ==
    \/ store_embeddings
    \/ query_similar
    \/ get_chunks_by_id
    \/ delete_chunks_by_document_id
    \/ Return

Spec == Init /\ [][Next]_vars

(***************************************************************************)
(* The routine max_sim on its own: SELECT max_sim(document, query).        *)
(***************************************************************************)
\* Most bit-vectors in an array given to max_sim.
MaxVectors == 2

\* Every bit-vector of width D, and one of width D - 1.
BitVectors == [1..D -> {0, 1}] \cup {[i \in 1..(D - 1) |-> 1]}
BitArrays == SeqsUpTo(BitVectors, MaxVectors)

SelectMaxSim ==
    /\ pc = "ready"
    /\ \E document \in BitArrays, query \in BitArrays :
        /\ call' = [op |-> "max_sim", document |-> document, query |-> query]
        /\ ret' = max_sim(document, query)
        /\ raised' = "none"
        /\ pc' = "returned"
        /\ pre' = table
        /\ UNCHANGED <<table, gen, schema>>

NextMaxSim ==
    \/ SelectMaxSim
    \/ Return

SpecMaxSim == Init /\ [][NextMaxSim]_vars

(***************************************************************************)
(* The connector on its own: blocks `with self.get_connection()`.          *)
(***************************************************************************)
NextConn ==
    \/ get_connection
    \/ connect
    \/ register_vector
    \/ body
    \/ raise_last_error
    \/ Return

SpecConn == Init /\ [][NextConn]_vars

(***************************************************************************)
(* _binary_quantize on its own.                                            *)
(***************************************************************************)
\* Every float vector of width D, and every one of width D - 1.
FloatVectors == [1..D -> {-1, 0, 1}] \cup [1..(D - 1) -> {-1, 0, 1}]
\* The rows of an array or tensor have one width, and so do the vectors
\* of a list, which np.array would not take otherwise.
SameWidth(vecs) == \A m, n \in 1..Len(vecs) : Len(vecs[m]) = Len(vecs[n])
Embeddings ==
    [kind : {"list", "ndarray"},
     vecs : {vecs \in SeqsUpTo(FloatVectors, MaxVectors) : SameWidth(vecs)}]

call_binary_quantize ==
    /\ pc = "ready"
    /\ \E embeddings \in Embeddings, connected \in BOOLEAN :
        LET r == binary_quantize(embeddings, connected) IN
        /\ call' = [op |-> "_binary_quantize", embeddings |-> embeddings,
                    connected |-> connected]
        /\ ret' = r.bits
        /\ raised' = r.err
        /\ pc' = "returned"
        /\ pre' = table
        /\ UNCHANGED <<table, gen, schema>>

NextQuantize ==
    \/ call_binary_quantize
    \/ Return

SpecQuantize == Init /\ [][NextQuantize]_vars

(***************************************************************************)
(* initialize on the databases a store can be constructed against.         *)
(***************************************************************************)
\* A row of a legacy table: it has no document_id, chunk_number, content or
\* chunk_metadata.
LegacyRow == [embeddings |-> <<Bit(Ones)>>]
ShapedRow == [document_id |-> DocA, chunk_number |-> 0, content |-> "x",
              chunk_metadata |-> PyStr(MdLit), embeddings |-> <<Bit(Ones)>>]

\* The index is on document_id, so only a created table can have it.
Backends ==
    {b \in [schema : [extension : BOOLEAN, table : {"absent", "legacy", "created"},
                      index : BOOLEAN, max_sim : BOOLEAN],
            rows : SeqsUpTo({LegacyRow, ShapedRow}, MaxRows)] :
        /\ b.schema.index => b.schema.table = "created"
        /\ b.schema.table = "absent" => b.rows = <<>>
        /\ b.schema.table = "legacy" => Range(b.rows) \subseteq {LegacyRow}
        /\ b.schema.table = "created"
             => (Range(b.rows) \subseteq {ShapedRow} /\ Len(b.rows) <= 1)}

InitBackend ==
    /\ \E b \in Backends : schema = b.schema /\ table = b.rows
    /\ pc = "ready"
    /\ call = NoCall
    /\ ret = NoChunks
    /\ raised = "none"
    /\ pre = table
    /\ gen = NoGen

NextInitialize ==
    \/ initialize
    \/ Return

SpecInitialize == InitBackend /\ [][NextInitialize]_vars

(***************************************************************************)
(* The claims.  A handler's result is read in the state the call returns   *)
(* to: pc = "returned", with call, ret, raised, pre and table.             *)
(***************************************************************************)
Min2(a, b) == IF a <= b THEN a ELSE b

Called(op) == pc = "returned" /\ call.op = op
Returned(op) == Called(op) /\ raised = "none"

\* Number of positions where two bit-vectors of one width differ.
HammingDistance(a, b) == Cardinality({i \in 1..Len(a) : a[i] # b[i]})

\* sim(q, v) = 1 - hamming_distance(q, v) / max(bit-length of v, 1), over
\* the denominator SimScale.
HammingSimilarity(q, v) ==
    SimScale - (SimScale * HammingDistance(q, v)) \div Max2(Len(v), 1)

\* The largest of a non-empty set of integers.
SetMax(S) == CHOOSE x \in S : \A y \in S : y <= x

\* Sum over i of the maximum over j of sim(Q[i], V[j]).
RECURSIVE SumOfMax(_, _)
SumOfMax(Q, V) ==
    IF Q = <<>> THEN 0
    ELSE SetMax({HammingSimilarity(Head(Q), V[j]) : j \in 1..Len(V)})
             + SumOfMax(Tail(Q), V)

\* C1: whenever the installed max_sim routine gives a score for a stored
\* vector set V and a query vector set Q, the score is the sum over the
\* query vectors of the largest 1 - hamming_distance(q, v) / max(len(v), 1)
\* over the document vectors.
C1_ScoreIsSumOfMax ==
    (Called("max_sim") /\ ret.st = "ok")
        => ret.v = SumOfMax(call.query, call.document)

\* Two query vectors and two document vectors, where the best document
\* vector differs from one query vector to the other.
C1_Witness ==
    /\ Called("max_sim") /\ ret.st = "ok"
    /\ Len(call.query) = 2 /\ Len(call.document) = 2
    /\ call.query[1] = call.document[1] /\ call.query[2] = call.document[2]
    /\ call.query[1] # call.query[2]
    /\ ret.v = 2 * SimScale

\* doc_ids as the contract reads it: None admits every chunk, a list
\* admits the chunks of the documents it names.
Eligible(row, doc_ids) == doc_ids.none \/ row.document_id \in Range(doc_ids.ids)

\* The bit-vectors _binary_quantize makes of the query of the call.
QueryBits(embedding) == [i \in 1..Len(embedding.vecs) |-> Bit(embedding.vecs[i])]

\* Row and query can be scored: both hold vectors, all of one width.
Scorable(row, Q) ==
    /\ Q # <<>> /\ row.embeddings # <<>>
    /\ \A i \in 1..Len(Q), j \in 1..Len(row.embeddings) :
           Len(Q[i]) = Len(row.embeddings[j])

\* Chunk c is what the readers return for row, with this score.
ChunkOfRow(c, row, Q) ==
    /\ c.document_id = row.document_id
    /\ c.chunk_number = row.chunk_number
    /\ c.content = row.content
    /\ Scorable(row, Q)
    /\ c.score = SumOfMax(Q, row.embeddings)

\* C2: a query_similar call with k >= 1 that returns gives at most k chunks,
\* in non-increasing order of score; the chunks are those of distinct stored
\* rows, and no eligible row left out scores strictly higher than a
\* returned chunk.
C2_TopKSorted ==
    (Returned("query_similar") /\ call.k >= 1) =>
        LET Q == QueryBits(call.query_embedding) IN
        /\ Len(ret) <= call.k
        /\ \A i \in 1..(Len(ret) - 1) : ret[i].score >= ret[i + 1].score
        /\ \E p \in [1..Len(ret) -> 1..Len(table)] :
              /\ \A i, j \in 1..Len(ret) : i # j => p[i] # p[j]
              /\ \A i \in 1..Len(ret) : ChunkOfRow(ret[i], table[p[i]], Q)
              /\ \A r \in 1..Len(table) :
                    (Eligible(table[r], call.doc_ids) /\ r \notin Range(p))
                        => \A i \in 1..Len(ret) :
                              /\ Scorable(table[r], Q)
                              /\ SumOfMax(Q, table[r].embeddings) <= ret[i].score

\* k = 1 over two rows of different score: one row is returned and the
\* lower one is left out.
C2_Witness ==
    /\ Returned("query_similar") /\ call.k = 1 /\ call.doc_ids.none
    /\ Len(table) = 2 /\ Len(ret) = 1
    /\ \E r \in 1..Len(table) :
          /\ Scorable(table[r], QueryBits(call.query_embedding))
          /\ SumOfMax(QueryBits(call.query_embedding), table[r].embeddings)
                 < ret[1].score

\* C3: query_similar with doc_ids an empty list returns no chunk, whatever
\* is stored.
C3_EmptyFilterReturnsNothing ==
    (Returned("query_similar") /\ call.doc_ids = ListFilter(<<>>))
        => ret = <<>>

\* C4: query_similar with no query vector, on a backend that works, does
\* not fail and returns the eligible stored chunks, up to k of them, each
\* with score 0.
C4_EmptyQueryScoresZero ==
    (Called("query_similar") /\ call.fault = NoFault /\ call.k >= 1
         /\ call.query_embedding.vecs = <<>>) =>
        /\ raised = "none"
        /\ Len(ret) = Min2(call.k,
                           Cardinality({r \in 1..Len(table) :
                                           Eligible(table[r], call.doc_ids)}))
        /\ \A i \in 1..Len(ret) : ret[i].score = 0

\* A chunk lacks vectors when its embedding is missing or holds no vector.
LacksVectors(chunk) == chunk.embedding.vecs = <<>>

\* The rows the call added to the table.
Added == SubSeq(table, Len(pre) + 1, Len(table))

\* C5: for every batch, the empty one included, a store_embeddings call
\* that returns gives success = true exactly when it stored at least one
\* chunk, and stored_keys lists the keys of the chunks it stored, in which
\* no chunk lacking vectors appears.
C5_SuccessIffStored ==
    Returned("store_embeddings") =>
        /\ ret.success <=> (Len(Added) > 0)
        /\ Len(ret.stored_keys) = Len(Added)
        /\ \A i \in 1..Len(Added) : ret.stored_keys[i] = StoredKey(Added[i])
        /\ \A i \in 1..Len(call.chunks) :
              LacksVectors(call.chunks[i])
                  => /\ StoredKey(call.chunks[i]) \notin Range(ret.stored_keys)
                     /\ \A j \in 1..Len(Added) :
                           Added[j].content # call.chunks[i].content
                           \/ Added[j].document_id # call.chunks[i].document_id
                           \/ Added[j].chunk_number # call.chunks[i].chunk_number

\* C6: when the write of one chunk that has vectors fails (no connection, or
\* the INSERT refused), store_embeddings does not raise, and every other
\* chunk of the batch that has vectors of the column's width is stored and
\* listed in stored_keys.
C6_FailedChunkIsSkipped ==
    (Called("store_embeddings") /\ call.fault # NoFault
         /\ ~LacksVectors(call.chunks[call.fault.at])) =>
        /\ raised = "none"
        /\ \A i \in 1..Len(call.chunks) :
              (i # call.fault.at /\ call.chunks[i].embedding.vecs # <<>>
                   /\ \A v \in Range(call.chunks[i].embedding.vecs) : Len(v) = D)
                  => StoredKey(call.chunks[i]) \in Range(ret.stored_keys)

\* C7: every stored row holds at least one vector, and a store_embeddings
\* call on a backend that works does not fail on a chunk that lacks
\* vectors: it leaves the chunk out of stored_keys and writes no row for it.
C7_StoredVectorsNonEmpty ==
    /\ \A r \in 1..Len(table) : table[r].embeddings # <<>>
    /\ (Called("store_embeddings") /\ call.fault = NoFault
            /\ \A i \in 1..Len(call.chunks) :
                  \/ LacksVectors(call.chunks[i])
                  \/ \A v \in Range(call.chunks[i].embedding.vecs) : Len(v) = D)
           => /\ raised = "none"
              /\ \A i \in 1..Len(call.chunks) :
                    LacksVectors(call.chunks[i])
                        => StoredKey(call.chunks[i]) \notin Range(ret.stored_keys)

\* The chunks of the batch that a store_embeddings call that returned has
\* stored: those whose embedding is not None.
RECURSIVE StoredChunks(_)
StoredChunks(chunks) ==
    IF chunks = <<>> THEN <<>>
    ELSE IF Head(chunks).embedding.kind = "None" THEN StoredChunks(Tail(chunks))
    ELSE <<Head(chunks)>> \o StoredChunks(Tail(chunks))

\* C8: after a store_embeddings call that stored chunks, get_chunks_by_id
\* with the keys of those chunks, on a backend that works, returns for each
\* of them a chunk with its content and its metadata, an empty embedding
\* and score 0.
C8_StoreThenGetRoundTrip ==
    (Returned("store_embeddings") /\ ret.stored_keys # <<>>) =>
        LET stored == StoredChunks(call.chunks)
            keys == [i \in 1..Len(stored) |->
                        <<stored[i].document_id, stored[i].chunk_number>>]
            got == GetResult(table, keys, NoFault)
        IN  /\ got.raised = "none"
            /\ \A i \in 1..Len(stored) :
                  \E j \in 1..Len(got.ret) :
                      got.ret[j] = [document_id |-> stored[i].document_id,
                                    chunk_number |-> stored[i].chunk_number,
                                    content |-> stored[i].content,
                                    embedding |-> <<>>,
                                    metadata |-> stored[i].metadata,
                                    score |-> 0]

\* C9: after a delete_chunks_by_document_id(d) that returned true, no row
\* with document_id d is stored, a second call leaves the table as it is,
\* and get_chunks_by_id for any key of d returns no chunk.
C9_DeleteLeavesNoChunk ==
    (Returned("delete_chunks_by_document_id") /\ ret.value) =>
        /\ \A r \in 1..Len(table) : table[r].document_id # call.document_id
        /\ DeleteResult(table, call.document_id, NoFault).table = table
        /\ \A n \in ChunkNums :
              LET got == GetResult(table, << <<call.document_id, n>> >>, NoFault)
              IN  got.raised = "none" /\ got.ret = <<>>

\* C10: delete_chunks_by_document_id never raises; when the backend fails
\* (no connection, or the DELETE refused) it returns false and leaves the
\* table as it was; it returns true only when the DELETE ran.
C10_DeleteNeverRaises ==
    Called("delete_chunks_by_document_id") =>
        /\ raised = "none"
        /\ call.fault # NoFault => (ret.value = FALSE /\ table = pre)
        /\ ret.value = TRUE =>
              /\ call.fault = NoFault /\ ret.caught = "none"
              /\ \A r \in 1..Len(table) :
                    table[r].document_id # SqlLiteral(call.document_id).value

\* The connection attempts are exhausted while rows are stored: the call
\* returns false and the rows stay.
C10_Witness ==
    /\ Called("delete_chunks_by_document_id")
    /\ call.fault.kind = "connect"
    /\ ret.value = FALSE /\ ret.caught = "OperationalError"
    /\ raised = "none"
    /\ table # <<>>

(***************************************************************************)
(* Claims about get_connection, read in the state a block returns to.      *)
(***************************************************************************)
Last(s) == s[Len(s)]

\* C11: when a statement of the body fails with an operational error on an
\* established connection, the caller of the block sees a backend error
\* only once the retry budget is used up, and that error is the last
\* operational error observed, never an error made by the connector.
\* (A ProgrammingError of register_vector during the retry is no transient
\* error and is left aside.)
C11_BodyFailureIsRetried ==
    (/\ Called("get_connection")
     /\ gen.thrown.type = "OperationalError"
     /\ raised \notin {"none", "ProgrammingError"})
    => (/\ gen.exhausted
        /\ gen.error = Last(gen.observed))

\* C12: when every call of connect fails, there are exactly max_retries
\* calls of connect, a sleep between consecutive ones only, the body never
\* runs and the block fails; and once the attempt that gave the body its
\* connection has succeeded, connect is not called again.
C12_ExactlyMaxRetriesAttempts ==
    /\ (Called("get_connection") /\ gen.conns = <<>>)
       => (/\ gen.connects = gen.max_retries
           /\ gen.sleeps = Max2(gen.max_retries - 1, 0)
           /\ gen.bodies = 0
           /\ raised # "none")
    /\ gen.entered > 0 => gen.connects = gen.entered

\* C13: for every max_retries, 0 included, a block that runs out of
\* attempts raises the last operational error that was observed.
C13_ExhaustionRaisesLastError ==
    (Called("get_connection") /\ gen.exhausted)
    => (/\ gen.observed # <<>>
        /\ gen.error = Last(gen.observed)
        /\ raised = "OperationalError")

\* C14: when the block is left, on whatever path, every connection it
\* opened has been closed.
C14_EveryConnectionClosed ==
    Called("get_connection")
    => \A i \in 1..Len(gen.conns) : gen.conns[i] = "closed"

(***************************************************************************)
(* Claims about _binary_quantize.                                          *)
(***************************************************************************)
\* C15: _binary_quantize gives one bit-vector per input vector, in input
\* order, and bit i of the bit-vector of v is 1 exactly when v[i] > 0.
C15_BitIsOneIffPositive ==
    Returned("_binary_quantize")
    => LET vecs == call.embeddings.vecs IN
       /\ Len(ret) = Len(vecs)
       /\ \A n \in 1..Len(vecs) :
            /\ Len(ret[n]) = Len(vecs[n])
            /\ \A i \in 1..Len(vecs[n]) : ret[n][i] = 1 <=> vecs[n][i] > 0

\* Two different vectors, with a negative, a zero and a positive component
\* among them, were quantized.
C15_Witness ==
    /\ Returned("_binary_quantize")
    /\ LET vecs == call.embeddings.vecs IN
       /\ Len(vecs) = 2
       /\ vecs[1] # vecs[2]
       /\ Bit(vecs[1]) # Bit(vecs[2])
       /\ \A x \in {-1, 0, 1} :
            \E n \in 1..2 : \E i \in 1..Len(vecs[n]) : vecs[n][i] = x
       /\ ret = <<Bit(vecs[1]), Bit(vecs[2])>>

\* C16: quantizing a vector whose width is not D raises ShapeError, and no
\* stored row holds a bit-vector of a width other than D.
C16_WrongDimensionRaisesShapeError ==
    /\ (/\ Called("_binary_quantize")
        /\ call.connected
        /\ \E n \in 1..Len(call.embeddings.vecs) :
             Len(call.embeddings.vecs[n]) # D)
       => raised = "ShapeError"
    /\ \A r \in 1..Len(table) :
         \A n \in 1..Len(table[r].embeddings) : Len(table[r].embeddings[n]) = D

(***************************************************************************)
(* Claims about the arguments and the frame of the handlers.               *)
(***************************************************************************)
\* C17: query_similar called with k <= 0, on a reachable backend and with
\* a query that holds vectors, fails (InvalidArgument) instead of returning
\* a list of chunks; the stored rows are as before the call.
C17_NonPositiveKIsInvalidArgument ==
    (/\ Called("query_similar")
     /\ call.k <= 0
     /\ call.fault = NoFault
     /\ call.query_embedding.vecs # <<>>)
        => (raised # "none" /\ table = pre)

Readers == {"query_similar", "get_chunks_by_id"}

\* The metadata a reader owes for a row: the decoded text, or the empty
\* mapping when the text cannot be decoded.
MetadataOrEmpty(row) ==
    LET e == PyEval(row.chunk_metadata) IN
    IF row.chunk_metadata = "" \/ e.err # "none" THEN MdEmpty ELSE e.value

\* C18: a read never fails because the metadata text of a row cannot be
\* decoded, whatever the failure of the decoding is, and the chunk of such
\* a row is returned with the empty mapping.
C18_UndecodableMetadataIsEmpty ==
    (pc = "returned" /\ call.op \in Readers) =>
        /\ raised \notin {"NameError", "SyntaxError", "ValueError"}
        /\ raised = "none" =>
              \A i \in 1..Len(ret) : \E r \in 1..Len(table) :
                  /\ ret[i].document_id = table[r].document_id
                  /\ ret[i].chunk_number = table[r].chunk_number
                  /\ ret[i].content = table[r].content
                  /\ ret[i].metadata = MetadataOrEmpty(table[r])

\* The rows of tbl that do not belong to document d, in table order.
RECURSIVE RowsNotOf(_, _)
RowsNotOf(tbl, d) ==
    IF tbl = <<>> THEN <<>>
    ELSE IF Head(tbl).document_id = d THEN RowsNotOf(Tail(tbl), d)
    ELSE <<Head(tbl)>> \o RowsNotOf(Tail(tbl), d)

\* C19: the readers leave the stored rows as they are, store_embeddings
\* destroys none, and delete_chunks_by_document_id(d), for every string d,
\* leaves the rows of every other document as they are and, when it
\* reports success, removes exactly the rows of d.
C19_OnlyDeleteDestroysAndOnlyItsDocument ==
    /\ (pc = "returned" /\ call.op \in Readers) => table = pre
    /\ Called("store_embeddings")
         => (Len(table) >= Len(pre) /\ SubSeq(table, 1, Len(pre)) = pre)
    /\ Called("delete_chunks_by_document_id")
         => /\ RowsNotOf(table, call.document_id) = RowsNotOf(pre, call.document_id)
            /\ ret.value => table = RowsNotOf(pre, call.document_id)
            /\ ~ret.value => table = pre

\* The rows whose document the filter names.
InFilter(tbl, doc_ids) ==
    {r \in 1..Len(tbl) : tbl[r].document_id \in Range(doc_ids.ids)}

\* C20: a query_similar call with a non-empty doc_ids list that returns
\* gives only chunks of the documents in the list, as many as k and the
\* number of stored rows of those documents allow, and no row of those
\* documents that is left out scores higher than a returned chunk.
C20_FilterRestrictsCandidates ==
    (/\ Returned("query_similar")
     /\ ~call.doc_ids.none /\ call.doc_ids.ids # <<>>) =>
        LET Q == QueryBits(call.query_embedding)
            F == InFilter(table, call.doc_ids) IN
        /\ \A i \in 1..Len(ret) : ret[i].document_id \in Range(call.doc_ids.ids)
        /\ Len(ret) = Min2(call.k, Cardinality(F))
        /\ call.k >= 1 =>
             \E p \in [1..Len(ret) -> F] :
                /\ \A i, j \in 1..Len(ret) : i # j => p[i] # p[j]
                /\ \A i \in 1..Len(ret) : ChunkOfRow(ret[i], table[p[i]], Q)
                /\ \A r \in F \ Range(p) : \A i \in 1..Len(ret) :
                      SumOfMax(Q, table[r].embeddings) <= ret[i].score

\* A filtered query returned a chunk although a stored row of a document
\* outside the filter scores strictly higher.
C20_Witness ==
    /\ Returned("query_similar")
    /\ ~call.doc_ids.none /\ call.doc_ids.ids # <<>>
    /\ Len(ret) >= 1
    /\ \E r \in 1..Len(table) :
          /\ table[r].document_id \notin Range(call.doc_ids.ids)
          /\ Scorable(table[r], QueryBits(call.query_embedding))
          /\ SumOfMax(QueryBits(call.query_embedding), table[r].embeddings)
                 > ret[1].score

(***************************************************************************)
(* Claims about partial misses and about the purity of the quantizer.      *)
(***************************************************************************)
\* The rows of tbl whose (document_id, chunk_number) is among the keys, in
\* table order.
RECURSIVE RowsRequested(_, _)
RowsRequested(tbl, keys) ==
    IF tbl = <<>> THEN <<>>
    ELSE IF <<Head(tbl).document_id, Head(tbl).chunk_number>> \in Range(keys)
    THEN <<Head(tbl)>> \o RowsRequested(Tail(tbl), keys)
    ELSE RowsRequested(Tail(tbl), keys)

\* C21: get_chunks_by_id on a backend that works, with keys of which some
\* are stored and some are not, does not raise and returns the chunks of
\* exactly the stored rows whose (document_id, chunk_number) was requested.
C21_UnknownKeysAreOmitted ==
    (Called("get_chunks_by_id") /\ call.fault = NoFault) =>
        LET rows == RowsRequested(table, call.chunk_identifiers) IN
        /\ raised = "none"
        /\ Len(ret) = Len(rows)
        /\ \A i \in 1..Len(rows) :
              /\ ret[i].document_id = rows[i].document_id
              /\ ret[i].chunk_number = rows[i].chunk_number
              /\ ret[i].content = rows[i].content

\* C22: _binary_quantize does not depend on the backend: whether a
\* connection can be obtained or not, it gives the same outcome.
C22_QuantizeIsPure ==
    Called("_binary_quantize") =>
        LET other == binary_quantize(call.embeddings, ~call.connected) IN
        /\ raised = other.err
        /\ ret = other.bits

(***************************************************************************)
(* Claims about duplicate keys and about the batch of store_embeddings.    *)
(***************************************************************************)
\* The row the INSERT writes for a chunk.
RowOfChunk(chunk) ==
    [document_id |-> chunk.document_id,
     chunk_number |-> chunk.chunk_number,
     content |-> chunk.content,
     chunk_metadata |-> PyStr(chunk.metadata),
     embeddings |-> QueryBits(chunk.embedding)]

RowsOfChunks(chunks) == [i \in 1..Len(chunks) |-> RowOfChunk(chunks[i])]

\* C25: a store_embeddings call that returns has appended one row for each
\* chunk it stored, also when the key of the chunk is stored already (no
\* update, no rejection), and whenever two rows share a key,
\* get_chunks_by_id for that key returns more than one chunk.
C25_DuplicateKeysBothPersist ==
    Returned("store_embeddings") =>
        /\ table = pre \o RowsOfChunks(StoredChunks(call.chunks))
        /\ \A r1, r2 \in 1..Len(table) :
              (/\ r1 < r2
               /\ table[r1].document_id = table[r2].document_id
               /\ table[r1].chunk_number = table[r2].chunk_number)
              => LET key == <<table[r1].document_id, table[r1].chunk_number>>
                     got == GetResult(table, <<key>>, NoFault)
                 IN  got.raised = "none" /\ Len(got.ret) >= 2

\* The chunks of the batch at which the call stops: the chunk the fault
\* strikes, a Python list without vectors, a vector of another width.
StopsAt(chunks, fault) ==
    {i \in 1..Len(chunks) :
        /\ chunks[i].embedding.kind # "None"
        /\ \/ fault.kind # "none" /\ fault.at = i
           \/ chunks[i].embedding = EmptyList
           \/ \E n \in 1..Len(chunks[i].embedding.vecs) :
                 Len(chunks[i].embedding.vecs[n]) # D}

SetMin(S) == CHOOSE x \in S : \A y \in S : x <= y

\* C26: a store_embeddings call raises exactly when it stops at a chunk,
\* and then the rows of the chunks before that chunk (those that carry an
\* embedding) have been appended and are kept, and nothing else is
\* written.
C26_BatchIsNotAtomic ==
    Called("store_embeddings") =>
        LET S == StopsAt(call.chunks, call.fault) IN
        /\ raised # "none" <=> S # {}
        /\ raised # "none" =>
              table = pre \o RowsOfChunks(
                          StoredChunks(SubSeq(call.chunks, 1, SetMin(S) - 1)))

\* A call stopped at its second chunk after it had written the first, in
\* a table that held a row already.
C26_Witness ==
    /\ Called("store_embeddings") /\ raised # "none"
    /\ SetMin(StopsAt(call.chunks, call.fault)) = 2
    /\ pre # <<>>
    /\ table = Append(pre, RowOfChunk(call.chunks[1]))

(***************************************************************************)
(* Claims about initialize.                                                *)
(***************************************************************************)
\* C23: initialize on a reachable backend that has the extension and a
\* multi_vector_embeddings table without document_id, holding rows, returns
\* true with document_id in place and NOT NULL, and every row still there.
C23_EvolutionKeepsRows ==
    (/\ Called("initialize")
     /\ call.fault = "none"
     /\ call.before.extension
     /\ call.before.table = "legacy"
     /\ pre # <<>>)
    => (/\ ret = TRUE
        /\ schema.table \in {"evolved", "created"}
        /\ table = pre)

\* The database is as an initialize that met no obstacle leaves it.
CorrectlyShaped(sch) ==
    /\ sch.extension
    /\ sch.table \in {"evolved", "created"}
    /\ sch.index
    /\ sch.max_sim

\* C24: initialize on a database that is correctly shaped already leaves
\* the table, the index, max_sim and the rows as they are, and returns
\* true when the backend refuses nothing.
C24_InitializeIsIdempotent ==
    (Called("initialize") /\ CorrectlyShaped(call.before))
    => (/\ schema = call.before
        /\ table = pre
        /\ call.fault = "none" => ret = TRUE)

\* C27: when initialize returns true the table exists with its columns and
\* max_sim is installed: the SELECT of query_similar is not refused for a
\* missing table, column or routine.
C27_TrueMeansReady ==
    (Called("initialize") /\ ret = TRUE) => SchemaError(schema) = "none"

====
